---- MODULE Spec2Model ----
(***************************************************************************)
(* RFID access controller (Rfid_Master4_V1.ino): the credential state      *)
(* machine of loop(), the EEPROM whitelist and the output pins.            *)
(***************************************************************************)
EXTENDS Integers, Sequences, FiniteSets, TLC

\* ----------------------------------------------------------------- constants
MASTER_UID1 == 43
MASTER_UID2 == 98
MASTER_UID3 == 123
MASTER_UID4 == 456
RELAY_PIN == 6
GREEN_LED_PIN == 4
RED_LED_PIN == 5
YELLOW_LED_PIN == 7

Pins == {RELAY_PIN, GREEN_LED_PIN, RED_LED_PIN, YELLOW_LED_PIN}

\* EEPROM.length(): the number of one-byte cells of the store.
EEPROMLength == 3

Addresses == 0 .. (EEPROMLength - 1)

\* Raw identifiers (mfrc522.uid.uidByte[0 .. uid.size-1]) a card can present.
\* Sums: 7, 107, 14, 123, 100, 43, 298.
Cards ==
  { <<1, 2, 3, 1>>, <<50, 50, 4, 3>>, <<10, 2, 1, 1>>, <<100, 20, 2, 1>>,
    <<50, 50, 0, 0>>, <<40, 1, 1, 1>>, <<255, 43, 0, 0>> }

\* Bytes a cell may hold when the sketch is first started: empty (0), a code
\* written by an earlier run, a master code, an erased cell (0xFF).
InitCells == {0, 7, 43, 255}

\* ------------------------------------------------------------ pure functions
\* An accumulator one byte wide.
Wrap8(x) == x % 256

\* int arithmetic of the AVR target: 16-bit two's complement.
Wrap16(x) == ((x + 32768) % 65536) - 32768

\* C's % truncates toward zero.
CRem(a, b) == IF a >= 0 THEN a % b ELSE -((-a) % b)

\* for (byte i = 0; i < uid.size; i++) uidSum += uid.uidByte[i];
RECURSIVE UidSum(_, _)
UidSum(uid, n) ==
  IF n = 0 THEN 0 ELSE Wrap16(UidSum(uid, n - 1) + uid[n])

\* int shrunkUID = uidSum % 100;
ShrunkUID(uid) == CRem(UidSum(uid, Len(uid)), 100)

\* The scan of findEEPROMAddress started one cell too late (i = 1).
FirstAddressSkippingZero(store, v) ==
  IF \E i \in Addresses : i >= 1 /\ store[i] = v
  THEN CHOOSE i \in Addresses :
         i >= 1 /\ store[i] = v /\ \A j \in Addresses : (1 <= j /\ j < i) => store[j] # v
  ELSE -1

\* The master test with MASTER_UID2 left out.
IsMasterFirstOnly(s) ==
  s = MASTER_UID1 \/ s = MASTER_UID3 \/ s = MASTER_UID4

IsMaster(s) ==
  s = MASTER_UID1 \/ s = MASTER_UID2 \/ s = MASTER_UID3 \/ s = MASTER_UID4

\* Linear scan of a store: the first address whose cell equals v, else -1.
FirstAddress(store, v) ==
  IF \E i \in Addresses : store[i] = v
  THEN CHOOSE i \in Addresses :
         store[i] = v /\ \A j \in Addresses : j < i => store[j] # v
  ELSE -1

VARIABLES
  eeprom,      \* EEPROM cells: [Addresses -> 0..255]
  manageMode,  \* volatile bool manageMode
  pin,         \* level of each output pin: "HIGH" / "LOW"
  pc,          \* position in loop(): "poll", "dispatch", "delay", "halt"
  shrunkUID,   \* local of loop(); -1 when no card is being processed
  branch,      \* branch of loop() taken by the card being processed
  serial,      \* lines printed for the card being processed
  mode0,       \* history: manageMode when the card was read
  eeprom0,     \* history: the EEPROM when the card was read
  hist,        \* history: the last three processed cards, oldest first
  now,               \* millis(), in ticks (README sketch)
  lastActivityTime,  \* unsigned long lastActivityTime (README sketch)
  activityFlag,      \* volatile bool activityFlag (README sketch)
  attached,          \* the wakeUp interrupt is attached (README sketch)
  slept,             \* history: goToSleep ran since the last processed card
  cardsLeft,         \* cards still to be presented; -1: no limit
  uidByte,           \* mfrc522.uid.uidByte[0 .. uid.size-1] being summed
  uidSum,            \* int uidSum of the summing loop
  idx                \* byte i of the summing loop

\* State of the README sketch's sleep logic and of the step-by-step reduction.
extVars ==
  <<now, lastActivityTime, activityFlag, attached, slept, cardsLeft, uidByte, uidSum, idx>>

vars ==
  <<eeprom, manageMode, pin, pc, shrunkUID, branch, serial, mode0, eeprom0, hist,
    now, lastActivityTime, activityFlag, attached, slept, cardsLeft, uidByte, uidSum, idx>>

findEEPROMAddressFromOne(uid) == FirstAddressSkippingZero(eeprom, uid)

findEEPROMAddress(uid) == FirstAddress(eeprom, uid)

\* "return 0" in place of "return -1" when no cell is empty.
findEmptyEEPROMAddressZeroWhenFull ==
  IF FirstAddress(eeprom, 0) = -1 THEN 0 ELSE FirstAddress(eeprom, 0)

findEmptyEEPROMAddress == FirstAddress(eeprom, 0)

\* EEPROM.write(address, value): the cell keeps the low byte.
EEPROMWrite(address, value) == [eeprom EXCEPT ![address] = value % 256]

\* digitalWrite on a set of pins.
DigitalWrite(ps, level) == [p \in Pins |-> IF p \in ps THEN level ELSE pin[p]]

\* Append a processed card to the history, keeping the last three.
Remember(h, e) ==
  IF Len(h) < 3 THEN Append(h, e) ELSE Append(Tail(h), e)

\* ---------------------------------------------------------------------- init
\* State after setup(): every output LOW, manageMode false, EEPROM as found.
Init ==
  /\ eeprom \in [Addresses -> InitCells]
  /\ manageMode = FALSE
  /\ pin = [p \in Pins |-> "LOW"]
  /\ pc = "poll"
  /\ shrunkUID = -1
  /\ branch = "none"
  /\ serial = <<>>
  /\ mode0 = FALSE
  /\ eeprom0 = eeprom
  /\ hist = <<>>
  /\ now = 0
  /\ lastActivityTime = 0
  /\ activityFlag = FALSE
  /\ attached = FALSE
  /\ slept = FALSE
  /\ cardsLeft = -1
  /\ uidByte = <<>>
  /\ uidSum = 0
  /\ idx = 0

\* ------------------------------------------------------------------- actions
\* PICC_IsNewCardPresent() && PICC_ReadCardSerial(): a card is read, its UID
\* reduced and printed.
ReadCard ==
  /\ pc = "poll"
  /\ \E uid \in Cards :
       /\ shrunkUID' = ShrunkUID(uid)
       /\ serial' = <<"Card UID: " \o ToString(ShrunkUID(uid))>>
  /\ pc' = "dispatch"
  /\ branch' = "none"
  /\ mode0' = manageMode
  /\ eeprom0' = eeprom
  /\ UNCHANGED <<eeprom, manageMode, pin, hist>>
  /\ UNCHANGED extVars

\* Master exit that forgets to clear the flag.
MasterExitKeepsMode ==
  /\ pc = "dispatch"
  /\ IsMaster(shrunkUID)
  /\ manageMode
  /\ serial' = Append(serial, "Master card detected again. Exiting manage mode...")
  /\ pin' = DigitalWrite({RED_LED_PIN}, "LOW")
  /\ branch' = "exit"
  /\ pc' = "halt"
  /\ UNCHANGED <<eeprom, manageMode, shrunkUID, mode0, eeprom0, hist>>
  /\ UNCHANGED extVars

\* Master card while in manage mode.
MasterExit ==
  /\ pc = "dispatch"
  /\ IsMaster(shrunkUID)
  /\ manageMode
  /\ serial' = Append(serial, "Master card detected again. Exiting manage mode...")
  /\ manageMode' = FALSE
  /\ pin' = DigitalWrite({RED_LED_PIN}, "LOW")
  /\ branch' = "exit"
  /\ pc' = "halt"
  /\ UNCHANGED <<eeprom, shrunkUID, mode0, eeprom0, hist>>
  /\ UNCHANGED extVars

\* Entering manage mode without lighting the red LED.
MasterEnterDark ==
  /\ pc = "dispatch"
  /\ IsMaster(shrunkUID)
  /\ ~manageMode
  /\ serial' = Append(serial, "Master card detected. Entering manage mode...")
  /\ manageMode' = TRUE
  /\ pin' = DigitalWrite({GREEN_LED_PIN, RELAY_PIN}, "HIGH")
  /\ branch' = "enter"
  /\ pc' = "delay"
  /\ UNCHANGED <<eeprom, shrunkUID, mode0, eeprom0, hist>>
  /\ UNCHANGED extVars

\* Master card in normal mode: up to delay(3000).
MasterEnter ==
  /\ pc = "dispatch"
  /\ IsMaster(shrunkUID)
  /\ ~manageMode
  /\ serial' = Append(serial, "Master card detected. Entering manage mode...")
  /\ manageMode' = TRUE
  /\ pin' = DigitalWrite({RED_LED_PIN, GREEN_LED_PIN, RELAY_PIN}, "HIGH")
  /\ branch' = "enter"
  /\ pc' = "delay"
  /\ UNCHANGED <<eeprom, shrunkUID, mode0, eeprom0, hist>>
  /\ UNCHANGED extVars

\* Removal that writes the erased value 0xFF in place of 0.
RemoveCardErases ==
  /\ pc = "dispatch"
  /\ ~IsMaster(shrunkUID)
  /\ manageMode
  /\ findEEPROMAddress(shrunkUID) # -1
  /\ eeprom' = EEPROMWrite(findEEPROMAddress(shrunkUID), 255)
  /\ serial' = Append(serial, "Scanned UID removed from EEPROM.")
  /\ pin' = DigitalWrite({YELLOW_LED_PIN}, "HIGH")
  /\ branch' = "remove"
  /\ pc' = "delay"
  /\ UNCHANGED <<manageMode, shrunkUID, mode0, eeprom0, hist>>
  /\ UNCHANGED extVars

\* Manage mode, the scanned UID is found in the EEPROM: up to delay(100).
RemoveCard ==
  /\ pc = "dispatch"
  /\ ~IsMaster(shrunkUID)
  /\ manageMode
  /\ findEEPROMAddress(shrunkUID) # -1
  /\ eeprom' = EEPROMWrite(findEEPROMAddress(shrunkUID), 0)
  /\ serial' = Append(serial, "Scanned UID removed from EEPROM.")
  /\ pin' = DigitalWrite({YELLOW_LED_PIN}, "HIGH")
  /\ branch' = "remove"
  /\ pc' = "delay"
  /\ UNCHANGED <<manageMode, shrunkUID, mode0, eeprom0, hist>>
  /\ UNCHANGED extVars

\* Manage mode, not found, an empty cell exists: up to delay(1000).
AddCard ==
  /\ pc = "dispatch"
  /\ ~IsMaster(shrunkUID)
  /\ manageMode
  /\ findEEPROMAddress(shrunkUID) = -1
  /\ findEmptyEEPROMAddress # -1
  /\ eeprom' = EEPROMWrite(findEmptyEEPROMAddress, shrunkUID)
  /\ serial' = Append(serial, "New card added to EEPROM at address "
                                \o ToString(findEmptyEEPROMAddress))
  /\ pin' = DigitalWrite({YELLOW_LED_PIN}, "HIGH")
  /\ branch' = "add"
  /\ pc' = "delay"
  /\ UNCHANGED <<manageMode, shrunkUID, mode0, eeprom0, hist>>
  /\ UNCHANGED extVars

\* Store-full branch that returns from loop() before the reader is halted.
StoreFullReturns ==
  /\ pc = "dispatch"
  /\ ~IsMaster(shrunkUID)
  /\ manageMode
  /\ findEEPROMAddress(shrunkUID) = -1
  /\ findEmptyEEPROMAddress = -1
  /\ serial' = Append(serial, "EEPROM is full. Cannot add more cards.")
  /\ manageMode' = FALSE
  /\ pin' = DigitalWrite({RED_LED_PIN}, "LOW")
  /\ branch' = "full"
  /\ pc' = "poll"
  /\ UNCHANGED <<eeprom, shrunkUID, mode0, eeprom0, hist>>
  /\ UNCHANGED extVars

\* Manage mode, not found, no empty cell: message, then leave manage mode.
StoreFull ==
  /\ pc = "dispatch"
  /\ ~IsMaster(shrunkUID)
  /\ manageMode
  /\ findEEPROMAddress(shrunkUID) = -1
  /\ findEmptyEEPROMAddress = -1
  /\ serial' = Append(serial, "EEPROM is full. Cannot add more cards.")
  /\ manageMode' = FALSE
  /\ pin' = DigitalWrite({RED_LED_PIN}, "LOW")
  /\ branch' = "full"
  /\ pc' = "halt"
  /\ UNCHANGED <<eeprom, shrunkUID, mode0, eeprom0, hist>>
  /\ UNCHANGED extVars

\* Normal mode, found: up to delay(3000).
Grant ==
  /\ pc = "dispatch"
  /\ ~IsMaster(shrunkUID)
  /\ ~manageMode
  /\ findEEPROMAddress(shrunkUID) # -1
  /\ serial' = Append(serial, "Access granted.")
  /\ pin' = DigitalWrite({GREEN_LED_PIN, RELAY_PIN}, "HIGH")
  /\ branch' = "grant"
  /\ pc' = "delay"
  /\ UNCHANGED <<eeprom, manageMode, shrunkUID, mode0, eeprom0, hist>>
  /\ UNCHANGED extVars

\* Normal mode, not found: up to delay(2000).
Deny ==
  /\ pc = "dispatch"
  /\ ~IsMaster(shrunkUID)
  /\ ~manageMode
  /\ findEEPROMAddress(shrunkUID) = -1
  /\ serial' = Append(serial, "Access denied.")
  /\ pin' = DigitalWrite({RED_LED_PIN}, "HIGH")
  /\ branch' = "deny"
  /\ pc' = "delay"
  /\ UNCHANGED <<eeprom, manageMode, shrunkUID, mode0, eeprom0, hist>>
  /\ UNCHANGED extVars

\* The end of the manage branch with "manageMode = false" inside the add
\* branch only: a removal stays in manage mode.
EndDelayRemoveStays ==
  /\ pc = "delay"
  /\ \/ /\ branch \in {"enter", "grant"}
        /\ pin' = DigitalWrite({RELAY_PIN, GREEN_LED_PIN}, "LOW")
        /\ UNCHANGED manageMode
     \/ /\ branch = "add"
        /\ pin' = [DigitalWrite({YELLOW_LED_PIN}, "LOW") EXCEPT ![RED_LED_PIN] = "LOW"]
        /\ manageMode' = FALSE
     \/ /\ branch = "remove"
        /\ pin' = DigitalWrite({YELLOW_LED_PIN}, "LOW")
        /\ UNCHANGED manageMode
     \/ /\ branch = "deny"
        /\ pin' = DigitalWrite({RED_LED_PIN}, "LOW")
        /\ UNCHANGED manageMode
  /\ pc' = "halt"
  /\ UNCHANGED <<eeprom, shrunkUID, branch, serial, mode0, eeprom0, hist>>
  /\ UNCHANGED extVars

\* The delay of the branch elapses: the rest of the branch runs.
EndDelay ==
  /\ pc = "delay"
  /\ \/ /\ branch \in {"enter", "grant"}
        /\ pin' = DigitalWrite({RELAY_PIN, GREEN_LED_PIN}, "LOW")
        /\ UNCHANGED manageMode
     \/ /\ branch \in {"remove", "add"}
        /\ pin' = [DigitalWrite({YELLOW_LED_PIN}, "LOW") EXCEPT ![RED_LED_PIN] = "LOW"]
        /\ manageMode' = FALSE
     \/ /\ branch = "deny"
        /\ pin' = DigitalWrite({RED_LED_PIN}, "LOW")
        /\ UNCHANGED manageMode
  /\ pc' = "halt"
  /\ UNCHANGED <<eeprom, shrunkUID, branch, serial, mode0, eeprom0, hist>>
  /\ UNCHANGED extVars

\* PICC_HaltA(); PCD_StopCrypto1(); loop() returns.
Halt ==
  /\ pc = "halt"
  /\ hist' = Remember(hist, [code |-> shrunkUID, mode |-> mode0,
                             branch |-> branch, store |-> eeprom0])
  /\ pc' = "poll"
  /\ shrunkUID' = -1
  /\ eeprom0' = eeprom
  /\ mode0' = manageMode
  /\ UNCHANGED <<eeprom, manageMode, pin, branch, serial>>
  /\ UNCHANGED extVars

Next ==
  \/ ReadCard
  \/ MasterExit
  \/ MasterEnter
  \/ RemoveCard
  \/ AddCard
  \/ StoreFull
  \/ Grant
  \/ Deny
  \/ EndDelay
  \/ Halt

Spec == Init /\ [][Next]_vars

TypeOK ==
  /\ eeprom \in [Addresses -> 0 .. 255]
  /\ manageMode \in BOOLEAN
  /\ pin \in [Pins -> {"HIGH", "LOW"}]
  /\ pc \in {"poll", "dispatch", "delay", "halt"}
  /\ shrunkUID \in -1 .. 99
  /\ Len(hist) <= 3

\* ------------------------------------------- README sketch: sleep and reset
\* The inactivity threshold (1800000 ms) in clock ticks.
InactivityTicks == 2

\* The millis() counter is an unsigned long: it wraps; here after a few ticks
\* more than the threshold.
MillisModulus == InactivityTicks + 3

\* Number of cards presented when the presentations are limited.
MaxCards == 3

\* Bytes a cell may hold when the README sketch is first started.
SketchCells == {0, 7}

\* millis() - lastActivityTime, unsigned.
Elapsed == (now - lastActivityTime) % MillisModulus

\* The test of loop() with the comparison reversed.
SleepDueReversed == Elapsed < InactivityTicks

\* millis() - lastActivityTime >= 1800000
SleepDue == Elapsed >= InactivityTicks

\* State when setup() of the README sketch has returned.
SketchInit ==
  /\ eeprom \in [Addresses -> SketchCells]
  /\ manageMode = FALSE
  /\ pin = [p \in Pins |-> "LOW"]
  /\ pc = "boot"
  /\ shrunkUID = -1
  /\ branch = "none"
  /\ serial = <<>>
  /\ mode0 = FALSE
  /\ eeprom0 = eeprom
  /\ hist = <<>>
  /\ now = 0
  /\ lastActivityTime = 0
  /\ activityFlag = FALSE
  /\ attached = TRUE
  /\ slept = FALSE
  /\ cardsLeft = -1
  /\ uidByte = <<>>
  /\ uidSum = 0
  /\ idx = 0

\* A reset whose start-up code also clears the first EEPROM cell.
RebootClearsCell ==
  /\ pc # "boot"
  /\ eeprom' = [eeprom EXCEPT ![0] = 0]
  /\ manageMode' = FALSE
  /\ pin' = [p \in Pins |-> "LOW"]
  /\ pc' = "boot"
  /\ shrunkUID' = -1
  /\ branch' = "none"
  /\ serial' = <<>>
  /\ mode0' = manageMode
  /\ eeprom0' = eeprom
  /\ now' = 0
  /\ lastActivityTime' = 0
  /\ activityFlag' = FALSE
  /\ attached' = TRUE
  /\ slept' = FALSE
  /\ UNCHANGED <<hist, cardsLeft, uidByte, uidSum, idx>>

\* Reset or power cycle at any point: the globals take their initialisers,
\* setup() runs, the EEPROM keeps its cells and millis() restarts.  mode0 and
\* eeprom0 record the mode and the cells at the moment of the reset.
Reboot ==
  /\ pc # "boot"
  /\ manageMode' = FALSE
  /\ pin' = [p \in Pins |-> "LOW"]
  /\ pc' = "boot"
  /\ shrunkUID' = -1
  /\ branch' = "none"
  /\ serial' = <<>>
  /\ mode0' = manageMode
  /\ eeprom0' = eeprom
  /\ now' = 0
  /\ lastActivityTime' = 0
  /\ activityFlag' = FALSE
  /\ attached' = TRUE
  /\ slept' = FALSE
  /\ UNCHANGED <<eeprom, hist, cardsLeft, uidByte, uidSum, idx>>

\* loop() is entered.
StartLoop ==
  /\ pc = "boot"
  /\ pc' = "top"
  /\ UNCHANGED <<eeprom, manageMode, pin, shrunkUID, branch, serial, mode0, eeprom0, hist>>
  /\ UNCHANGED extVars

\* The inactivity test fails: on to the card test.
StayAwake ==
  /\ pc = "top"
  /\ ~SleepDue
  /\ pc' = "poll"
  /\ UNCHANGED <<eeprom, manageMode, pin, shrunkUID, branch, serial, mode0, eeprom0, hist>>
  /\ UNCHANGED extVars

\* goToSleep() whose sleep_cpu() returns at once.
goToSleepReturns ==
  /\ pc = "top"
  /\ SleepDue
  /\ serial' = <<"Going to sleep...", "Waking up...">>
  /\ attached' = FALSE
  /\ slept' = TRUE
  /\ pc' = "poll"
  /\ UNCHANGED <<eeprom, manageMode, pin, shrunkUID, branch, mode0, eeprom0, hist>>
  /\ UNCHANGED <<now, lastActivityTime, activityFlag, cardsLeft, uidByte, uidSum, idx>>

\* The inactivity test holds: goToSleep() up to sleep_cpu().
goToSleep ==
  /\ pc = "top"
  /\ SleepDue
  /\ serial' = <<"Going to sleep...">>
  /\ attached' = TRUE
  /\ slept' = TRUE
  /\ pc' = "sleep"
  /\ UNCHANGED <<eeprom, manageMode, pin, shrunkUID, branch, mode0, eeprom0, hist>>
  /\ UNCHANGED <<now, lastActivityTime, activityFlag, cardsLeft, uidByte, uidSum, idx>>

\* A wake-up that also leaves manage mode.
wakeUpResetsMode ==
  /\ pc = "sleep"
  /\ activityFlag' = TRUE
  /\ attached' = FALSE
  /\ manageMode' = FALSE
  /\ pin' = DigitalWrite({RED_LED_PIN}, "LOW")
  /\ serial' = Append(serial, "Waking up...")
  /\ pc' = "poll"
  /\ UNCHANGED <<eeprom, shrunkUID, branch, mode0, eeprom0, hist>>
  /\ UNCHANGED <<now, lastActivityTime, slept, cardsLeft, uidByte, uidSum, idx>>

\* A wake-up that also restarts the inactivity timer.
wakeUpRefreshes ==
  /\ pc = "sleep"
  /\ activityFlag' = TRUE
  /\ attached' = FALSE
  /\ lastActivityTime' = now
  /\ serial' = Append(serial, "Waking up...")
  /\ pc' = "poll"
  /\ UNCHANGED <<eeprom, manageMode, pin, shrunkUID, branch, mode0, eeprom0, hist>>
  /\ UNCHANGED <<now, slept, cardsLeft, uidByte, uidSum, idx>>

\* The external signal arrives during sleep_cpu(): wakeUp() runs, then the
\* rest of goToSleep(); loop() continues with the card test.
wakeUp ==
  /\ pc = "sleep"
  /\ activityFlag' = TRUE
  /\ attached' = FALSE
  /\ serial' = Append(serial, "Waking up...")
  /\ pc' = "poll"
  /\ UNCHANGED <<eeprom, manageMode, pin, shrunkUID, branch, mode0, eeprom0, hist>>
  /\ UNCHANGED <<now, lastActivityTime, slept, cardsLeft, uidByte, uidSum, idx>>

\* wakeUp() runs as an interrupt handler while the sketch is awake.
wakeUpAwake ==
  /\ pc # "sleep"
  /\ attached
  /\ ~activityFlag
  /\ activityFlag' = TRUE
  /\ UNCHANGED <<eeprom, manageMode, pin, pc, shrunkUID, branch, serial, mode0, eeprom0, hist>>
  /\ UNCHANGED <<now, lastActivityTime, attached, slept, cardsLeft, uidByte, uidSum, idx>>

\* No card is read: loop() returns.
NoCard ==
  /\ pc = "poll"
  /\ pc' = "top"
  /\ UNCHANGED <<eeprom, manageMode, pin, shrunkUID, branch, serial, mode0, eeprom0, hist>>
  /\ UNCHANGED extVars

\* A card read that leaves lastActivityTime alone.
SketchReadCardNoStamp ==
  /\ pc = "poll"
  /\ cardsLeft # 0
  /\ cardsLeft' = IF cardsLeft > 0 THEN cardsLeft - 1 ELSE cardsLeft
  /\ activityFlag' = TRUE
  /\ \E id \in Cards :
       /\ shrunkUID' = ShrunkUID(id)
       /\ serial' = <<"Card UID: " \o ToString(ShrunkUID(id))>>
  /\ pc' = "dispatch"
  /\ branch' = "none"
  /\ mode0' = manageMode
  /\ eeprom0' = eeprom
  /\ UNCHANGED <<eeprom, manageMode, pin, hist>>
  /\ UNCHANGED <<now, lastActivityTime, attached, slept, uidByte, uidSum, idx>>

\* A card is read: the activity is recorded, the UID reduced and printed.
SketchReadCard ==
  /\ pc = "poll"
  /\ cardsLeft # 0
  /\ cardsLeft' = IF cardsLeft > 0 THEN cardsLeft - 1 ELSE cardsLeft
  /\ activityFlag' = TRUE
  /\ lastActivityTime' = now
  /\ \E id \in Cards :
       /\ shrunkUID' = ShrunkUID(id)
       /\ serial' = <<"Card UID: " \o ToString(ShrunkUID(id))>>
  /\ pc' = "dispatch"
  /\ branch' = "none"
  /\ mode0' = manageMode
  /\ eeprom0' = eeprom
  /\ UNCHANGED <<eeprom, manageMode, pin, hist>>
  /\ UNCHANGED <<now, attached, slept, uidByte, uidSum, idx>>

\* PICC_HaltA(); PCD_StopCrypto1(); loop() returns.
Finalize ==
  /\ pc = "halt"
  /\ pc' = "top"
  /\ shrunkUID' = -1
  /\ eeprom0' = eeprom
  /\ mode0' = manageMode
  /\ slept' = FALSE
  /\ UNCHANGED <<eeprom, manageMode, pin, branch, serial, hist>>
  /\ UNCHANGED <<now, lastActivityTime, activityFlag, attached, cardsLeft, uidByte, uidSum, idx>>

\* The clock advances by one tick.  loop() runs many times per tick, so the
\* clock is at most one tick past the threshold when the inactivity test is
\* made; a delay() is shorter than a tick; the clock stands still in
\* power-down sleep.
Tick ==
  /\ \/ pc \in {"top", "poll"} /\ Elapsed <= InactivityTicks
     \/ pc = "delay" /\ now = lastActivityTime
  /\ now' = (now + 1) % MillisModulus
  /\ UNCHANGED <<eeprom, manageMode, pin, pc, shrunkUID, branch, serial, mode0, eeprom0, hist>>
  /\ UNCHANGED <<lastActivityTime, activityFlag, attached, slept, cardsLeft, uidByte, uidSum, idx>>

\* Steps of loop() itself.
LoopStep ==
  \/ StartLoop
  \/ StayAwake
  \/ goToSleep
  \/ NoCard
  \/ MasterExit
  \/ MasterEnter
  \/ RemoveCard
  \/ AddCard
  \/ StoreFull
  \/ Grant
  \/ Deny
  \/ EndDelay
  \/ Finalize

\* The sketch with its environment: cards, wake-up signal, clock.
RunNext ==
  \/ LoopStep
  \/ SketchReadCard
  \/ wakeUp
  \/ wakeUpAwake
  \/ Tick

SleepNext ==
  \/ RunNext
  \/ Reboot

SleepSpec == SketchInit /\ [][SleepNext]_vars

\* A run in which MaxCards cards are presented and no reset occurs.
FairInit ==
  /\ eeprom \in [Addresses -> SketchCells]
  /\ manageMode = FALSE
  /\ pin = [p \in Pins |-> "LOW"]
  /\ pc = "boot"
  /\ shrunkUID = -1
  /\ branch = "none"
  /\ serial = <<>>
  /\ mode0 = FALSE
  /\ eeprom0 = eeprom
  /\ hist = <<>>
  /\ now = 0
  /\ lastActivityTime = 0
  /\ activityFlag = FALSE
  /\ attached = TRUE
  /\ slept = FALSE
  /\ cardsLeft = MaxCards
  /\ uidByte = <<>>
  /\ uidSum = 0
  /\ idx = 0

\* loop() is called again and again and the clock keeps advancing.
FairSleepSpec ==
  FairInit /\ [][RunNext]_vars /\ WF_vars(LoopStep) /\ WF_vars(Tick)

\* ------------------------------------------------ the reduction, step by step
\* Largest uid.size of a card.
MaxUidLen == 10

\* Byte values of the sampled identifiers: the least and the greatest.
SampleBytes == {0, 255}

\* Identifiers reduced: the cards above and every identifier of 1 to
\* MaxUidLen sampled bytes.
UidInputs ==
  Cards \cup UNION { [1 .. n -> SampleBytes] : n \in 1 .. MaxUidLen }

\* A card has been read; uidSum = 0 and i = 0 are about to run.
ReduceInit ==
  /\ eeprom = [a \in Addresses |-> 0]
  /\ manageMode = FALSE
  /\ pin = [p \in Pins |-> "LOW"]
  /\ pc = "sum"
  /\ shrunkUID = -1
  /\ branch = "none"
  /\ serial = <<>>
  /\ mode0 = FALSE
  /\ eeprom0 = eeprom
  /\ hist = <<>>
  /\ now = 0
  /\ lastActivityTime = 0
  /\ activityFlag = FALSE
  /\ attached = FALSE
  /\ slept = FALSE
  /\ cardsLeft = -1
  /\ uidByte \in UidInputs
  /\ uidSum = 0
  /\ idx = 0

\* uidSum += mfrc522.uid.uidByte[i]; i++
SumByte ==
  /\ pc = "sum"
  /\ idx < Len(uidByte)
  /\ uidSum' = Wrap16(uidSum + uidByte[idx + 1])
  /\ idx' = (idx + 1) % 256
  /\ UNCHANGED <<eeprom, manageMode, pin, pc, shrunkUID, branch, serial, mode0, eeprom0, hist>>
  /\ UNCHANGED <<now, lastActivityTime, activityFlag, attached, slept, cardsLeft, uidByte>>

\* The loop is left: int shrunkUID = uidSum % 100; Serial.println(shrunkUID)
Reduce ==
  /\ pc = "sum"
  /\ ~(idx < Len(uidByte))
  /\ shrunkUID' = CRem(uidSum, 100)
  /\ serial' = <<"Card UID: " \o ToString(CRem(uidSum, 100))>>
  /\ pc' = "reduced"
  /\ UNCHANGED <<eeprom, manageMode, pin, branch, mode0, eeprom0, hist>>
  /\ UNCHANGED extVars

\* The same card is read by a later call of loop().
ReadAgain ==
  /\ pc = "reduced"
  /\ serial' = <<>>
  /\ uidSum' = 0
  /\ idx' = 0
  /\ pc' = "sum"
  /\ UNCHANGED <<eeprom, manageMode, pin, shrunkUID, branch, mode0, eeprom0, hist>>
  /\ UNCHANGED <<now, lastActivityTime, activityFlag, attached, slept, cardsLeft, uidByte>>

ReduceNext ==
  \/ SumByte
  \/ Reduce
  \/ ReadAgain

ReduceSpec == ReduceInit /\ [][ReduceNext]_vars

\* ------------------------------------------------- vocabulary of the claims
MasterCodes == {MASTER_UID1, MASTER_UID2, MASTER_UID3, MASTER_UID4}

\* A code exists in a store: some non-empty slot holds it (0 marks an empty slot).
Stored(store, c) == c # 0 /\ \E a \in Addresses : store[a] = c

HasEmptySlot(store) == \E a \in Addresses : store[a] = 0

LowestSlot(store, v) ==
  CHOOSE a \in Addresses : store[a] = v /\ \A b \in Addresses : store[b] = v => a <= b

NoDuplicates(store) ==
  \A a, b \in Addresses : (a # b /\ store[a] # 0) => store[a] # store[b]

NoMasterStored(store) == \A a \in Addresses : store[a] \notin MasterCodes

Printed(line) == \E k \in 1 .. Len(serial) : serial[k] = line

On(p) == pin[p] = "HIGH"

\* The branch of the card being processed has been taken.
Decided == pc \in {"delay", "halt"}

\* Level of a pulsed output: on during the delay, off after it.
Pulsed(p) == On(p) <=> (pc = "delay")

Newest == hist[Len(hist)]

\* ------------------------------------------------------------------- claims
\* C1: a card read in Normal mode with a non-master code is granted (relay
\* and green on, then off, "Access granted.") iff its code exists in the
\* store, and is otherwise denied (red pulsed only, relay never on,
\* "Access denied."); store and mode are left unchanged.
C1_GrantIffStored ==
  (pc # "poll" /\ ~mode0 /\ shrunkUID \notin MasterCodes) =>
    /\ eeprom = eeprom0
    /\ manageMode = FALSE
    /\ Decided =>
         IF Stored(eeprom0, shrunkUID)
         THEN /\ branch = "grant"
              /\ Printed("Access granted.")
              /\ Pulsed(RELAY_PIN) /\ Pulsed(GREEN_LED_PIN)
              /\ ~On(RED_LED_PIN) /\ ~On(YELLOW_LED_PIN)
         ELSE /\ branch = "deny"
              /\ Printed("Access denied.")
              /\ Pulsed(RED_LED_PIN)
              /\ ~On(RELAY_PIN) /\ ~On(GREEN_LED_PIN) /\ ~On(YELLOW_LED_PIN)

\* C1 for the codes other than the sentinel 0.
C1_NonZero == shrunkUID # 0 => C1_GrantIffStored

\* C2: a card whose reduced code is 0 is never granted access and never
\* takes the remove branch.
C2_ZeroNeverMatched ==
  (Decided /\ shrunkUID = 0) => branch \notin {"grant", "remove"}

\* C3: no event turns a store without duplicates into one with duplicates;
\* after an add the store holds the code in exactly one slot; a card whose
\* code is stored is never added in Manage mode, it is removed: add c,
\* master, c ends in the removal of c.
C3_StoreExclusivity ==
  /\ NoDuplicates(eeprom0) => NoDuplicates(eeprom)
  /\ (Decided /\ branch = "add") =>
       /\ shrunkUID # 0
       /\ ~Stored(eeprom0, shrunkUID)
       /\ Cardinality({a \in Addresses : eeprom[a] = shrunkUID}) = 1
  /\ (Decided /\ mode0 /\ shrunkUID \notin MasterCodes /\ Stored(eeprom0, shrunkUID)) =>
       branch = "remove"
  /\ (/\ Len(hist) = 3
      /\ hist[1].branch = "add"
      /\ hist[2].branch = "enter"
      /\ hist[3].code = hist[1].code
      /\ hist[3].mode) =>
       /\ hist[3].branch = "remove"
       /\ (pc = "poll" /\ NoDuplicates(hist[1].store)) => ~Stored(eeprom, hist[1].code)

C3_Witness ==
  /\ pc = "poll"
  /\ Len(hist) = 3
  /\ hist[1].branch = "add"
  /\ hist[2].branch = "enter"
  /\ hist[3].branch = "remove"
  /\ hist[3].code = hist[1].code
  /\ NoDuplicates(hist[1].store)
  /\ \E a \in Addresses : hist[1].store[a] \notin {0, hist[1].code}

\* C4: in Manage mode a non-master code that exists in the store has exactly
\* the slot found for it set to 0 ("removed", yellow pulsed); otherwise, when
\* an empty slot exists, the code is written to the lowest empty slot
\* ("added" with the slot index, yellow pulsed); other slots are unchanged.
C4_ManageAddRemove ==
  (Decided /\ mode0 /\ shrunkUID \notin MasterCodes) =>
    IF Stored(eeprom0, shrunkUID)
    THEN /\ branch = "remove"
         /\ eeprom = [eeprom0 EXCEPT ![LowestSlot(eeprom0, shrunkUID)] = 0]
         /\ Printed("Scanned UID removed from EEPROM.")
         /\ Pulsed(YELLOW_LED_PIN)
    ELSE HasEmptySlot(eeprom0) =>
         /\ branch = "add"
         /\ eeprom = [eeprom0 EXCEPT ![LowestSlot(eeprom0, 0)] = shrunkUID]
         /\ Printed("New card added to EEPROM at address "
                      \o ToString(LowestSlot(eeprom0, 0)))
         /\ Pulsed(YELLOW_LED_PIN)

\* C4 for the codes other than the sentinel 0.
C4_NonZero == shrunkUID # 0 => C4_ManageAddRemove

\* C5: a card with a non-master code read in Manage mode ends in Normal mode
\* with the red LED off, whether it was added, removed or the store was full;
\* every add, remove or store-full follows a master entry directly.
C5_OneActionPerEntry ==
  /\ (pc = "halt" /\ mode0 /\ shrunkUID \notin MasterCodes) =>
       /\ branch \in {"add", "remove", "full"}
       /\ ~manageMode
       /\ ~On(RED_LED_PIN)
  /\ (pc = "poll" /\ Len(hist) > 0 /\ Newest.mode /\ Newest.code \notin MasterCodes) =>
       /\ ~manageMode
       /\ ~On(RED_LED_PIN)
  /\ \A k \in 2 .. Len(hist) :
       hist[k].branch \in {"add", "remove", "full"} => hist[k - 1].branch = "enter"

C5_Witness ==
  /\ pc = "poll"
  /\ Len(hist) = 3
  /\ hist[1].branch = "enter"
  /\ hist[2].branch = "remove"
  /\ hist[3].branch = "deny"

\* C6: from Normal mode, "scan master, scan a card, scan master again" ends
\* out of manage mode with the red LED off.
C6_ReadmeProcedure ==
  (/\ pc = "poll"
   /\ Len(hist) = 3
   /\ ~hist[1].mode
   /\ hist[1].code \in MasterCodes
   /\ hist[2].code \notin MasterCodes
   /\ hist[3].code \in MasterCodes) =>
    /\ ~manageMode
    /\ ~On(RED_LED_PIN)

\* C7: with every slot non-empty, a non-master code not in the store read in
\* Manage mode is reported "EEPROM is full", no slot changes, yellow is not
\* pulsed, the mode returns to Normal and the next card can be read.
C7_StoreFull ==
  /\ (/\ Decided
      /\ mode0
      /\ shrunkUID \notin MasterCodes
      /\ ~Stored(eeprom0, shrunkUID)
      /\ ~HasEmptySlot(eeprom0)) =>
       /\ pc = "halt"
       /\ branch = "full"
       /\ Printed("EEPROM is full. Cannot add more cards.")
       /\ eeprom = eeprom0
       /\ ~On(YELLOW_LED_PIN)
       /\ ~manageMode
  /\ (pc = "poll" /\ Len(hist) > 0 /\ Newest.branch = "full") =>
       /\ eeprom = Newest.store
       /\ ~manageMode
       /\ ENABLED ReadCard

C7_Witness ==
  /\ pc = "poll"
  /\ Len(hist) = 3
  /\ hist[2].branch = "full"
  /\ hist[2].code = 7
  /\ hist[3].branch = "deny"
  /\ hist[3].code = 7

\* C8: no event puts a master code into a store that holds none; a card with
\* a master code changes no slot and only toggles the mode (no grant, deny,
\* add or remove).
C8_MasterNeverStored ==
  /\ NoMasterStored(eeprom0) => NoMasterStored(eeprom)
  /\ (pc # "poll" /\ shrunkUID \in MasterCodes) => eeprom = eeprom0
  /\ (Decided /\ shrunkUID \in MasterCodes) =>
       /\ branch \in {"enter", "exit"}
       /\ manageMode = ~mode0
       /\ ~Printed("Access granted.")
       /\ ~Printed("Access denied.")
       /\ ~Printed("Scanned UID removed from EEPROM.")
       /\ \A a \in Addresses :
            ~Printed("New card added to EEPROM at address " \o ToString(a))
  /\ \A k \in 1 .. Len(hist) :
       hist[k].branch \in {"add", "remove", "full", "grant", "deny"} =>
         hist[k].code \notin MasterCodes

C8_Witness ==
  /\ pc = "halt"
  /\ shrunkUID = MASTER_UID2
  /\ branch = "exit"
  /\ NoMasterStored(eeprom)
  /\ Len(hist) = 3
  /\ hist[2].branch = "add"
  /\ hist[3].code = MASTER_UID1

\* C9: every master card flips the mode; from Normal mode two master cards
\* in succession end in Normal mode with the store unchanged and the red
\* LED off.
C9_ModeToggling ==
  /\ (Decided /\ shrunkUID \in MasterCodes) => manageMode = ~mode0
  /\ (/\ pc = "poll"
      /\ Len(hist) >= 2
      /\ Newest.code \in MasterCodes
      /\ hist[Len(hist) - 1].code \in MasterCodes
      /\ ~hist[Len(hist) - 1].mode) =>
       /\ Newest.mode
       /\ ~manageMode
       /\ eeprom = hist[Len(hist) - 1].store
       /\ ~On(RED_LED_PIN)

C9_Witness ==
  /\ pc = "poll"
  /\ Len(hist) = 2
  /\ hist[1].code = MASTER_UID1
  /\ hist[2].code = MASTER_UID2
  /\ ~hist[1].mode
  /\ Stored(eeprom, 7)

\* C10: a non-master code read in Normal mode right after its own Manage-mode
\* presentation is granted iff that presentation added it; "master, c, c"
\* from a store without c and with a free slot ends in add then grant, and
\* from a store containing c in remove then deny (stores without duplicates).
C10_Enrolment ==
  (/\ Len(hist) = 3
   /\ hist[1].branch = "enter"
   /\ NoDuplicates(hist[1].store)
   /\ hist[2].code \notin MasterCodes
   /\ hist[3].code = hist[2].code) =>
    /\ hist[3].branch = "grant" <=> hist[2].branch = "add"
    /\ (~Stored(hist[1].store, hist[2].code) /\ HasEmptySlot(hist[1].store)) =>
         (hist[2].branch = "add" /\ hist[3].branch = "grant")
    /\ Stored(hist[1].store, hist[2].code) =>
         (hist[2].branch = "remove" /\ hist[3].branch = "deny")

\* C10 for the codes other than the sentinel 0.
C10_NonZero == (Len(hist) = 3 /\ hist[3].code # 0) => C10_Enrolment

\* C11: adding a code that is not in the store (master, c) and then removing
\* it (master, c) leaves every slot as it was before the add.
C11_RoundTrip ==
  (/\ Len(hist) = 3
   /\ hist[1].branch = "add"
   /\ hist[3].branch = "remove"
   /\ hist[3].code = hist[1].code) =>
    /\ hist[2].branch = "enter"
    /\ hist[2].store = hist[3].store
    /\ eeprom0 = hist[1].store

C11_Witness ==
  /\ pc = "poll"
  /\ Len(hist) = 3
  /\ hist[1].branch = "add"
  /\ hist[3].branch = "remove"
  /\ hist[3].code = hist[1].code
  /\ hist[1].store[0] = 7
  /\ hist[1].store[1] = 0
  /\ hist[2].store[1] = hist[1].code
  /\ eeprom = hist[1].store

\* C12: the relay is on during an event iff the event started in Normal mode
\* and the code is a master code or a code present in the store; it is never
\* on in an event that started in Manage mode, in a deny, or between events.
C12_RelayOnIff ==
  /\ pc = "delay" =>
       (On(RELAY_PIN) <=>
          (~mode0 /\ (shrunkUID \in MasterCodes \/ Stored(eeprom0, shrunkUID))))
  /\ pc # "delay" => ~On(RELAY_PIN)

\* C12 for the codes other than the sentinel 0.
C12_NonZero == shrunkUID # 0 => C12_RelayOnIff

\* Position in loop(), counted back from the return to polling.
Rank(p) ==
  CASE p = "poll" -> 0 [] p = "halt" -> 1 [] p = "delay" -> 2 [] p = "dispatch" -> 3

\* C14: after every card read the processing moves forward on every branch,
\* is never stuck, and returns to polling only through the one step that
\* halts the card and stops the crypto unit; a new read starts from polling.
C14_FinalizedOnce ==
  /\ [](pc # "poll" =>
          ENABLED (MasterExit \/ MasterEnter \/ RemoveCard \/ AddCard \/ StoreFull
                     \/ Grant \/ Deny \/ EndDelay \/ Halt))
  /\ [][/\ pc # "poll" => Rank(pc') < Rank(pc)
        /\ pc' = "poll" => pc = "halt"
        /\ pc = "halt" => pc' = "poll"
        /\ pc' = "dispatch" => pc = "poll"]_vars

C14_Witness ==
  /\ pc = "poll"
  /\ Len(hist) = 3
  /\ hist[1].branch = "enter"
  /\ hist[2].branch = "full"
  /\ hist[3].branch = "grant"

\* C13: a reset at any point leaves the mode Normal, the relay and the three
\* LEDs off and every EEPROM cell as it was before the reset.
C13_BootReset ==
  /\ [](pc = "boot" => (/\ ~manageMode
                        /\ \A p \in Pins : ~On(p)
                        /\ eeprom = eeprom0))
  /\ [][pc' = "boot" => (/\ ~manageMode'
                         /\ \A p \in Pins : pin'[p] = "LOW"
                         /\ eeprom' = eeprom)]_vars

\* A reset in manage mode, after a card was stored.
C13_Witness ==
  /\ pc = "boot"
  /\ mode0
  /\ \E a \in Addresses : eeprom[a] \notin SketchCells

\* C15: goToSleep() is entered only from the top of loop(), never while a
\* card is being processed, and only when millis() - lastActivityTime has
\* reached the threshold; every card read sets lastActivityTime to millis().
C15_SleepGuard ==
  /\ [](pc = "sleep" => Elapsed >= InactivityTicks)
  /\ [](pc = "dispatch" => lastActivityTime = now)
  /\ [](pc \in {"delay", "halt"} => Elapsed < InactivityTicks)
  /\ [][pc' = "sleep" => (pc = "top" /\ Elapsed >= InactivityTicks)]_vars
  /\ [][(pc = "poll" /\ pc' = "dispatch") => lastActivityTime' = now']_vars

\* Asleep a second time, the card before having been read after the clock
\* had advanced.
C15_Witness ==
  /\ pc = "sleep"
  /\ lastActivityTime # 0
  /\ branch # "none"
  /\ Elapsed = InactivityTicks

\* C18: between cards (top of loop(), card test, asleep) the red LED is on
\* iff manage mode is set, and the relay, the green and the yellow LED are
\* off.
C18_IdleOutputs ==
  pc \in {"boot", "top", "poll", "sleep"} =>
    /\ On(RED_LED_PIN) <=> manageMode
    /\ ~On(RELAY_PIN)
    /\ ~On(GREEN_LED_PIN)
    /\ ~On(YELLOW_LED_PIN)

\* Asleep in manage mode with the red LED on.
C18_Witness == pc = "sleep" /\ manageMode /\ On(RED_LED_PIN)

\* C19 as stated: the first non-master card after a sleep in manage mode is
\* added or removed.
C19_AddedOrRemoved ==
  (Decided /\ slept /\ mode0 /\ shrunkUID \notin MasterCodes) =>
    branch \in {"add", "remove"}

\* C19: manage mode has no timeout.  Only the processing of a card (or a
\* reset) changes the mode or the EEPROM; the clock, the inactivity test,
\* going to sleep and waking up leave both unchanged.  The first non-master
\* card after a sleep in manage mode takes a manage-mode branch (added,
\* removed, or storage full), never grant or deny.
C19_NoTimeout ==
  /\ [][(manageMode' # manageMode \/ eeprom' # eeprom) =>
          (pc \in {"dispatch", "delay"} \/ pc' = "boot")]_vars
  /\ [][(pc = "top" \/ pc = "sleep" \/ pc' = "sleep" \/ now' # now) =>
          (pc' = "boot" \/ (manageMode' = manageMode /\ eeprom' = eeprom))]_vars
  /\ []((Decided /\ slept /\ mode0 /\ shrunkUID \notin MasterCodes) =>
          (/\ branch \in {"add", "remove", "full"}
           /\ ~On(RELAY_PIN) /\ ~On(GREEN_LED_PIN)))

\* A card is being added, the first after a sleep in manage mode.
C19_Witness == pc = "delay" /\ slept /\ mode0 /\ branch = "add"

\* C20: waking up leaves lastActivityTime alone.  After a wake-up the
\* inactivity test is still true, at the card test and at the next top of
\* loop(), where only goToSleep() can follow; a card read in that iteration is
\* processed as any card and sets lastActivityTime.
C20_WakeKeepsStamp ==
  /\ []((slept /\ pc \in {"poll", "top"}) => Elapsed >= InactivityTicks)
  /\ []((slept /\ pc = "top") => (ENABLED goToSleep /\ ~ENABLED StayAwake))
  /\ []((slept /\ pc = "poll") => ENABLED SketchReadCard)
  /\ [][pc = "sleep" => (pc' \in {"poll", "boot"} /\ (pc' = "poll" => lastActivityTime' = lastActivityTime))]_vars
  /\ [][(slept /\ pc = "poll" /\ pc' = "dispatch") =>
          (lastActivityTime' = now' /\ Elapsed' = 0)]_vars

\* Back at the top of loop() after a wake-up without a card, the clock having
\* advanced since the wake-up.
C20_Witness ==
  /\ pc = "top"
  /\ slept
  /\ ~attached
  /\ Elapsed > InactivityTicks

\* A card read right after a wake-up is being granted.
C20_WitnessCard == pc = "delay" /\ slept /\ branch = "grant" /\ ~attached

\* The sum of the first n bytes of an identifier, in unbounded integers.
RECURSIVE ExactSum(_, _)
ExactSum(id, n) == IF n = 0 THEN 0 ELSE ExactSum(id, n - 1) + id[n]

\* C16: with no more cards presented the sketch goes to sleep, again after
\* every wake-up; asleep, the only step is the wake-up by the external signal,
\* which changes neither the EEPROM, the mode, the outputs nor the timer.
C16_SleepLiveness ==
  /\ []<>(pc = "sleep")
  /\ [][pc = "sleep" =>
          (/\ pc' = "poll"
           /\ activityFlag'
           /\ ~attached'
           /\ cardsLeft' = cardsLeft
           /\ UNCHANGED <<eeprom, manageMode, pin, now, lastActivityTime, shrunkUID, branch>>)]_vars

\* Asleep after the last card, which was stored.
C16_Witness ==
  /\ pc = "sleep"
  /\ cardsLeft = 0
  /\ \E a \in Addresses : eeprom[a] \notin SketchCells

\* C17: for an identifier of up to MaxUidLen bytes the accumulator holds the
\* exact sum of the bytes added so far (no 16-bit overflow), the reduced code
\* is that sum modulo 100, lies in 0 .. 99, fits a byte, is what a card read
\* computes, and a repeated reduction of the identifier gives the same code.
C17_Reduction ==
  /\ [](/\ Len(uidByte) <= MaxUidLen
        /\ uidSum = ExactSum(uidByte, idx)
        /\ uidSum \in 0 .. 32767)
  /\ [](pc = "reduced" =>
          /\ shrunkUID = ExactSum(uidByte, Len(uidByte)) % 100
          /\ shrunkUID \in 0 .. 99
          /\ shrunkUID % 256 = shrunkUID
          /\ shrunkUID = ShrunkUID(uidByte))
  /\ [][(pc' = "reduced" /\ shrunkUID # -1) => shrunkUID' = shrunkUID]_vars

\* MaxUidLen bytes 0xFF have been summed a second time; the first reduction
\* gave the sum modulo 100.
C17_Witness ==
  /\ pc = "sum"
  /\ Len(uidByte) = MaxUidLen
  /\ idx = MaxUidLen
  /\ \A k \in 1 .. Len(uidByte) : uidByte[k] = 255
  /\ uidSum = 255 * MaxUidLen
  /\ shrunkUID = uidSum % 100

====
